---- MODULE Spec2Model ----
(***************************************************************************)
(* Model of the flopy package adapters ModflowGhb (flopy/modflow/mfghb.py) *)
(* and ModflowLak (flopy/modflow/mflak.py) and of the stress-period record *)
(* store (flopy.utils.util_list.mflist) they hold.                         *)
(*                                                                         *)
(* The name np used by mfghb.py is read as the numpy module throughout.    *)
(***************************************************************************)
EXTENDS Integers, Sequences, FiniteSets, TLC

\* ------------------------------------------------------------------ bounds
NPer == 4        \* stress periods of the host model (store specification)
MaxRecs == 2     \* longest record set add_record is asked to grow to
MaxOps == 3      \* store operations per behaviour
LoadNPer == 2    \* stress periods of the host model (load specification)
MaxBody == 3     \* lines of an input file after its header line
WriteNPer == 3   \* stress periods of the host model (GHB write, then load)
LakNPer == 2     \* stress periods of the host model (Lake write)
MaxLakes == 2    \* lakes of the Lake package

VARIABLES
    nper,        \* the host model's stress-period count
    store,       \* stress_period_data: period -> entry
    last,        \* the last store operation and its outcome
    nops,        \* store operations done so far
    pkg,         \* TRUE once load has returned a ModflowGhb object
    loaded,      \* the stress_period_data of the object load returned
    adapter,     \* the package at hand: "ghb" or "lak"
    self_ipakcb, self_options,       \* attributes of the package written
    out,         \* the lines write_file has written, each tagged with the
                 \* dataset it belongs to and the period it was written for
    wpc,         \* position of write_file: idle, header, period, close, done
    kper,        \* the period write_file is at
    steady,      \* parent.dis.steady
    nlakes, lakarr, sill_data, flux_data,   \* attributes of ModflowLak
    file,        \* the input file of load: a sequence of lines (token lists)
    pos,         \* lines of file consumed by readline
    pc,          \* position of load: idle, header, count, record, finish,
                 \* done, raised
    err,         \* the exception load raised, "none" otherwise
    t2a,         \* the tokens of the dataset 2a line load parsed
    ipakcb, options, aux_names,      \* load's locals of the same names
    iper, itmp, ibnd, current, spd,  \* spd is load's stress_period_data
    self_dtype,  \* the field names of the package's stress_period_data
    rh,          \* the file handle load opened: none, open or closed
    wh,          \* the file handle write_file opened: none, open or closed
    theta, nssitr, sscncr, surfdep,  \* attributes of ModflowLak
    stages, stage_range,             \* attributes of ModflowLak
    packagelist, \* the packages add_package has added to the host model
    init_err,    \* the exception ModflowLak.__init__ raised, "none" otherwise
    nper_arg,    \* the nper argument of load, None when it is not supplied
    lk           \* the locals of ModflowLak.load

storeVars == <<store, last, nops>>
loadVars == <<file, pos, pc, err, t2a, ipakcb, options, aux_names,
              iper, itmp, ibnd, current, spd>>
writeVars == <<adapter, self_ipakcb, self_options, out, wpc, kper, steady,
               nlakes, lakarr, sill_data, flux_data>>
handleVars == <<rh, wh>>
lakVars == <<theta, nssitr, sscncr, surfdep, stages, stage_range, packagelist,
             init_err, nper_arg, lk>>
extVars == <<self_dtype, handleVars, lakVars>>
vars == <<nper, pkg, loaded, storeVars, loadVars, writeVars, extVars>>

\* ------------------------------------------------------------ store entries
\* A dictionary slot of stress_period_data: no key, an integer (0 or -1), or
\* a record array.
NoKey == [tag |-> "none", val |-> 0, recs |-> <<>>]
IntEntry(v) == [tag |-> "int", val |-> v, recs |-> <<>>]
RecEntry(rs) == [tag |-> "rec", val |-> Len(rs), recs |-> rs]

\* The three states of a period: Explicit, Clear, CarryForward.
state_kind(e) ==
    IF e.tag = "rec" THEN "Explicit"
    ELSE IF e.tag = "int" /\ e.val = 0 THEN "Clear"
    ELSE "CarryForward"

\* Two records of the base schema (k, i, j, bhead, cond).
R1 == <<2, 3, 4, 10, 100>>
R2 == <<1, 1, 1, 10, 100>>

\* Record sets a caller hands to set().
SetInputs == {<<>>, <<R1>>, <<R1, R2>>}

\* effective(period): scan the keys <= period downwards for the nearest
\* Explicit or Clear entry.  First a faulty variant that starts the
\* scan one period early.
RECURSIVE effective_from_previous(_, _)
effective_from_previous(s, p) ==
    IF p <= 0 THEN [kind |-> "EMPTY", recs |-> <<>>]
    ELSE IF state_kind(s[p - 1]) = "Explicit"
         THEN [kind |-> "Explicit", recs |-> s[p - 1].recs]
    ELSE IF state_kind(s[p - 1]) = "Clear"
         THEN [kind |-> "Clear", recs |-> <<>>]
    ELSE effective_from_previous(s, p - 1)

RECURSIVE effective(_, _)
effective(s, p) ==
    IF p < 0 THEN [kind |-> "EMPTY", recs |-> <<>>]
    ELSE IF state_kind(s[p]) = "Explicit"
         THEN [kind |-> "Explicit", recs |-> s[p].recs]
    ELSE IF state_kind(s[p]) = "Clear"
         THEN [kind |-> "Clear", recs |-> <<>>]
    ELSE effective(s, p - 1)

\* set(period, recordSet | CLEAR)
set_records(s, p, rs) == [s EXCEPT ![p] = RecEntry(rs)]
set_clear(s, p) == [s EXCEPT ![p] = IntEntry(0)]

\* The store's add_record: make the period Explicit from its effective set if
\* it is not, then set slot index (0-based), growing when index = length.
store_add_record(s, p, index, values) ==
    LET base == IF s[p].tag = "rec" THEN s[p].recs ELSE effective(s, p).recs
        s1 == [s EXCEPT ![p] = RecEntry(base)]
    IN  IF index > Len(base)
        THEN [store |-> s1, err |-> "IndexError", len |-> Len(base)]
        ELSE IF index = Len(base)
        THEN [store |-> [s EXCEPT ![p] = RecEntry(Append(base, values))],
              err |-> "none", len |-> Len(base)]
        ELSE [store |-> [s EXCEPT ![p] =
                            RecEntry([base EXCEPT ![index + 1] = values])],
              err |-> "none", len |-> Len(base)]

\* ModflowGhb.add_record: delegate to the store; any exception is raised
\* again as a plain Exception.  The faulty variant passes index and kper
\* swapped.
add_record_swapped(s, per, index, values) ==
    LET r == IF index < nper THEN store_add_record(s, index, per, values)
             ELSE store_add_record(s, per, index, values)
    IN  [r EXCEPT !.err = IF r.err = "none" THEN "none" ELSE "Exception"]

add_record(s, per, index, values) ==
    LET r == store_add_record(s, per, index, values)
    IN  [r EXCEPT !.err = IF r.err = "none" THEN "none" ELSE "Exception"]

\* ------------------------------------------------- values outside a call
\* The default nper=None of load.
None == -1

\* The field names of get_default_dtype.
get_default_dtype == <<"k", "i", "j", "bhead", "cond">>

\* A Python value with the type isinstance sees: a float, an int, a list, an
\* ndarray or None.  val holds the elements (rows, for two dimensions).
Value(kind, val) == [kind |-> kind, val |-> val]
NoValue == Value("None", <<>>)

\* The locals of ModflowLak.load before the call.
NoLk ==
    [nlakes |-> 0, ipakcb |-> 0, theta |-> 0, nssitr |-> 0, sscncr |-> 0,
     surfdep |-> 0, stages |-> <<>>, stage_range |-> <<>>, itmp1 |-> 0,
     nds9 |-> 0, lake_loc |-> {}, sill_keys |-> {}, flux_keys |-> {},
     sill_data |-> <<>>, flux_data |-> <<>>]

\* No file has been opened.
HandlesIdle == rh = "none" /\ wh = "none"

\* No ModflowLak is being constructed or loaded.
LakIdle ==
    /\ theta = 0 /\ nssitr = 0 /\ sscncr = 0 /\ surfdep = 0
    /\ stages = NoValue /\ stage_range = NoValue
    /\ packagelist = {} /\ init_err = "none"
    /\ nper_arg = None /\ lk = NoLk

\* --------------------------------------------------------- store operations
NoOp ==
    [op |-> "none", kper |-> 0, index |-> 0, values |-> <<>>, len |-> 0,
     was |-> "CarryForward", err |-> "none"]

\* load is not running.
LoadIdle ==
    /\ file = <<>> /\ pos = 0 /\ pc = "idle" /\ err = "none" /\ t2a = <<>>
    /\ ipakcb = 0 /\ options = <<>> /\ aux_names = <<>>
    /\ iper = 0 /\ itmp = 0 /\ ibnd = 0 /\ current = <<>> /\ spd = <<>>

\* write_file is not running.
WriteIdle ==
    /\ adapter = "ghb" /\ self_ipakcb = 0 /\ self_options = <<>>
    /\ out = <<>> /\ wpc = "idle" /\ kper = 0 /\ steady = <<>>
    /\ nlakes = 0 /\ lakarr = <<>> /\ sill_data = <<>> /\ flux_data = <<>>

InitStore ==
    /\ nper = NPer
    /\ pkg = FALSE /\ loaded = <<>>
    /\ LoadIdle
    /\ WriteIdle
    /\ HandlesIdle
    /\ LakIdle
    /\ self_dtype = get_default_dtype
    /\ store = [p \in 0..(NPer - 1) |-> NoKey]
    /\ last = NoOp
    /\ nops = 0

SetRecords ==
    \E p \in 0..(nper - 1), rs \in SetInputs :
        /\ nops < MaxOps
        /\ store' = set_records(store, p, rs)
        /\ last' = [op |-> "set", kper |-> p, index |-> 0, values |-> <<>>,
                    len |-> Len(rs), was |-> state_kind(store[p]),
                    err |-> "none"]
        /\ nops' = nops + 1
        /\ UNCHANGED <<extVars, nper, pkg, loaded, loadVars, writeVars>>

SetClear ==
    \E p \in 0..(nper - 1) :
        /\ nops < MaxOps
        /\ store' = set_clear(store, p)
        /\ last' = [op |-> "clear", kper |-> p, index |-> 0, values |-> <<>>,
                    len |-> 0, was |-> state_kind(store[p]), err |-> "none"]
        /\ nops' = nops + 1
        /\ UNCHANGED <<extVars, nper, pkg, loaded, loadVars, writeVars>>

AddRecord ==
    \E p \in 0..(nper - 1), index \in 0..MaxRecs, values \in {R2} :
        LET r == add_record(store, p, index, values)
        IN  /\ nops < MaxOps
            /\ store' = r.store
            /\ last' = [op |-> "add_record", kper |-> p, index |-> index,
                        values |-> values, len |-> r.len,
                        was |-> state_kind(store[p]), err |-> r.err]
            /\ nops' = nops + 1
            /\ UNCHANGED <<extVars, nper, pkg, loaded, loadVars, writeVars>>

NextStore == SetRecords \/ SetClear \/ AddRecord

SpecStore == InitStore /\ [][NextStore]_vars

\* ------------------------------------------------------------- text lines
\* A line is the list of its whitespace-separated tokens (line.strip().split()).
\* int(token) / float(token) for the numeric tokens of the modelled files; any
\* other token makes the conversion raise ValueError.
Num ==
    ("-2" :> -2) @@ ("-1" :> -1) @@ ("0" :> 0) @@ ("1" :> 1) @@ ("2" :> 2) @@
    ("3" :> 3) @@ ("4" :> 4) @@ ("7" :> 7) @@ ("10" :> 10) @@ ("53" :> 53) @@
    ("100" :> 100)

IsNum(tok) == tok \in DOMAIN Num

\* str.lower()
lower(tok) ==
    CASE tok = "AUX" -> "aux"
      [] tok = "NOPRINT" -> "noprint"
      [] tok = "OPEN/CLOSE" -> "open/close"
      [] tok = "PARAMETER" -> "parameter"
      [] OTHER -> tok

\* line[0] == '#'
is_comment(line) == Len(line) > 0 /\ line[1] = "#"

\* word in line.lower()
has_word(line, word) == \E j \in 1..Len(line) : lower(line[j]) = word

\* The value np.zeros is overwritten with in get_empty (-1.0E+10 in the
\* source, outside the integers TLC has).
FillValue == -1000000000

\* Package.add_to_dtype: one more field per name, in the order given.
add_to_dtype(dtype, field_names) == dtype \o field_names

\* get_empty(ncells, aux_names): ncells records of 5 + len(aux_names) fields.
\* The faulty variant leaves the auxiliary names out.
get_empty_base_only(ncells, aux) ==
    [i \in 1..ncells |-> [j \in 1..5 |-> FillValue]]

get_empty(ncells, aux) ==
    [i \in 1..ncells |-> [j \in 1..(5 + Len(aux)) |-> FillValue]]

\* get_empty(0, aux_names).dtype
empty_dtype(aux) == add_to_dtype(get_default_dtype, aux)

\* `toption.lower() is 'noprint'`: the identity of a string built at run time
\* and a literal, which CPython never finds to be the same object.
is_noprint(toption) == FALSE

\* The option loop of load; `it` is the 0-based index into t.
RECURSIVE parse_options(_, _, _, _)
parse_options(t, it, opts, aux) ==
    IF it >= Len(t)
    THEN [err |-> "none", options |-> opts, aux_names |-> aux]
    ELSE LET toption == t[it + 1]
         IN  IF is_noprint(toption)
             THEN parse_options(t, it + 1, Append(opts, <<toption>>), aux)
             ELSE IF lower(toption) = "aux"
             THEN IF it + 1 >= Len(t)
                  THEN [err |-> "IndexError",
                        options |-> Append(opts, <<toption>>),
                        aux_names |-> aux]
                  ELSE parse_options(t, it + 2,
                                     Append(opts, <<toption, t[it + 2]>>),
                                     Append(aux, lower(t[it + 2])))
             ELSE parse_options(t, it + 1, opts, aux)

\* The number of leading comment lines read by the dataset 0 loop.
RECURSIVE skip_comments(_, _)
skip_comments(f, n) ==
    IF n < Len(f) /\ is_comment(f[n + 1]) THEN skip_comments(f, n + 1) ELSE n

\* ipakcb of dataset 2a: 53 when the second field is a non-zero integer, and
\* 0 otherwise, also when the field is missing or not a number (except: pass).
header_ipakcb(t) ==
    [err |-> "none",
     ipakcb |-> IF Len(t) >= 2 /\ IsNum(t[2]) /\ Num[t[2]] # 0 THEN 53 ELSE 0]

\* load up to the period loop: datasets 0, 1 (PARAMETER) and 2a with options.
load_header(f) ==
    LET n0 == skip_comments(f, 0)
        fail(e, n) == [err |-> e, pos |-> n, t |-> <<>>, ipakcb |-> 0,
                       options |-> <<>>, aux_names |-> <<>>]
        dataset2a(t, n) ==
            LET c == header_ipakcb(t)
                o == parse_options(t, 2, <<>>, <<>>)
            IN  IF c.err # "none" THEN fail(c.err, n)
                ELSE [err |-> o.err, pos |-> n, t |-> t, ipakcb |-> c.ipakcb,
                      options |-> o.options, aux_names |-> o.aux_names]
    IN  IF n0 = Len(f) THEN fail("IndexError", n0)
        ELSE LET line == f[n0 + 1]
             IN  IF has_word(line, "parameter")
                 THEN IF Len(line) < 2 THEN fail("IndexError", n0 + 1)
                      ELSE IF ~IsNum(line[2]) THEN fail("ValueError", n0 + 1)
                      ELSE IF Num[line[2]] # 0
                      THEN fail("AssertionError", n0 + 1)
                      ELSE IF n0 + 1 = Len(f) THEN dataset2a(<<>>, n0 + 1)
                      ELSE dataset2a(f[n0 + 2], n0 + 2)
                 ELSE dataset2a(line, n0 + 1)

\* What a period-count line with itmp <= 0 does to stress_period_data.  The
\* faulty variants: 0 is stored for both counts; only the zero count is kept.
period_count_as_clear(d, per, n) ==
    IF n = 0 \/ n = -1 THEN [d EXCEPT ![per] = IntEntry(0)] ELSE d

period_count_zero_only(d, per, n) ==
    IF n = 0 THEN [d EXCEPT ![per] = IntEntry(n)] ELSE d

period_count(d, per, n) ==
    IF n = 0 \/ n = -1 THEN [d EXCEPT ![per] = IntEntry(n)] ELSE d

\* One record line: tuple(t[:k]) assigned to a record of k fields, numpy
\* converting each token to its field's type.  Faulty variants: no open/close test;
\* tuple(t) without the slice.
read_record_no_openclose(line, k) ==
    IF Len(line) < k \/ \E j \in 1..k : ~IsNum(line[j])
    THEN [err |-> "ValueError", rec |-> <<>>]
    ELSE [err |-> "none", rec |-> [j \in 1..k |-> Num[line[j]]]]

read_record_unsliced(line, k) ==
    IF has_word(line, "open/close")
    THEN [err |-> "NotImplementedError", rec |-> <<>>]
    ELSE IF Len(line) # k \/ \E j \in 1..Len(line) : ~IsNum(line[j])
    THEN [err |-> "ValueError", rec |-> <<>>]
    ELSE [err |-> "none", rec |-> [j \in 1..k |-> Num[line[j]]]]

read_record(line, k) ==
    IF has_word(line, "open/close")
    THEN [err |-> "NotImplementedError", rec |-> <<>>]
    ELSE IF Len(line) < k \/ \E j \in 1..k : ~IsNum(line[j])
    THEN [err |-> "ValueError", rec |-> <<>>]
    ELSE [err |-> "none", rec |-> [j \in 1..k |-> Num[line[j]]]]

\* ------------------------------------------------------------ load, by line
\* nper of load: the argument, or the host model's when it is None.
load_nper == IF nper_arg = None THEN nper ELSE nper_arg

next_pc(per) == IF per >= load_nper THEN "finish" ELSE "count"

LoadHeader ==
    /\ pc = "header"
    /\ LET h == load_header(file)
       IN  /\ pos' = h.pos
           /\ t2a' = h.t
           /\ ipakcb' = h.ipakcb
           /\ options' = h.options
           /\ aux_names' = h.aux_names
           /\ err' = h.err
           /\ pc' = IF h.err # "none" THEN "raised" ELSE next_pc(0)
    /\ spd' = [p \in 0..(nper - 1) |-> NoKey]
    /\ rh' = "open"
    /\ UNCHANGED <<self_dtype, wh, lakVars, nper, pkg, loaded, storeVars,
                   writeVars, file, iper, itmp, ibnd, current>>

LoadCount ==
    /\ pc = "count"
    /\ IF pos = Len(file)
       THEN \* readline returns '': break
            /\ pc' = "finish"
            /\ UNCHANGED <<pos, err, iper, itmp, ibnd, current, spd>>
       ELSE LET t == file[pos + 1]
            IN  /\ pos' = pos + 1
                /\ IF Len(t) = 0 \/ ~IsNum(t[1])
                   THEN /\ pc' = "raised"
                        /\ err' = IF Len(t) = 0 THEN "IndexError"
                                  ELSE "ValueError"
                        /\ UNCHANGED <<iper, itmp, ibnd, current, spd>>
                   ELSE LET n == Num[t[1]]
                        IN  /\ itmp' = n
                            /\ err' = err
                            /\ IF n > 0
                               THEN /\ current' = get_empty(n, aux_names)
                                    /\ ibnd' = 0
                                    /\ pc' = "record"
                                    /\ UNCHANGED <<iper, spd>>
                               ELSE /\ spd' = period_count(spd, iper, n)
                                    /\ iper' = iper + 1
                                    /\ pc' = next_pc(iper + 1)
                                    /\ UNCHANGED <<ibnd, current>>
    /\ UNCHANGED <<extVars, nper, pkg, loaded, storeVars, writeVars, file, t2a, ipakcb,
                   options, aux_names>>

LoadRecord ==
    /\ pc = "record"
    /\ LET line == IF pos < Len(file) THEN file[pos + 1] ELSE <<>>
           r == read_record(line, Len(current[1]))
       IN  /\ pos' = IF pos < Len(file) THEN pos + 1 ELSE pos
           /\ err' = r.err
           /\ IF r.err # "none"
              THEN /\ pc' = "raised"
                   /\ UNCHANGED <<iper, ibnd, current, spd>>
              ELSE LET filled == [current EXCEPT ![ibnd + 1] = r.rec]
                   IN  /\ current' = filled
                       /\ ibnd' = ibnd + 1
                       /\ IF ibnd + 1 < itmp
                          THEN /\ pc' = "record"
                               /\ UNCHANGED <<iper, spd>>
                          ELSE /\ spd' = [spd EXCEPT ![iper] = RecEntry(filled)]
                               /\ iper' = iper + 1
                               /\ pc' = next_pc(iper + 1)
    /\ UNCHANGED <<extVars, nper, pkg, loaded, storeVars, writeVars, file, t2a, ipakcb,
                   options, aux_names, itmp>>

\* ModflowGhb(model, ipakcb, stress_period_data, dtype, options) is returned.
LoadFinish ==
    /\ pc = "finish"
    /\ pc' = "done"
    /\ pkg' = TRUE
    /\ loaded' = spd
    /\ self_dtype' = empty_dtype(aux_names)
    /\ UNCHANGED <<handleVars, lakVars, nper, storeVars, writeVars, file, pos, err, t2a, ipakcb,
                   options, aux_names, iper, itmp, ibnd, current, spd>>

\* ------------------------------------------------------------- input files
Comment == <<"#", "GHB">>
Rec5 == <<"2", "3", "4", "10", "100">>
Rec6 == <<"1", "1", "1", "10", "100", "7">>

Prefixes == {<<>>, <<Comment>>, <<Comment, <<"PARAMETER", "0", "0">>>>,
             <<<<"PARAMETER", "1", "1">>>>}

Headers ==
    {<<"2", "0">>, <<"2", "53">>, <<"2", "x">>, <<"x", "0">>, <<"2">>,
     <<"2", "0", "AUX", "temp">>,
     <<"2", "0", "NOPRINT", "AUX", "temp", "AUX", "conc">>,
     <<"2", "0", "AUX">>}

BodyLines ==
    {<<"0">>, <<"-1">>, <<"-2">>, <<"1", "0">>, Rec5, Rec6,
     <<"OPEN/CLOSE", "ghb.dat">>, <<"x">>}

Bodies == UNION {[1..n -> BodyLines] : n \in 0..MaxBody}

FileSet ==
    {<<>>, <<Comment>>} \cup
    {pre \o <<h>> \o body : pre \in Prefixes, h \in Headers, body \in Bodies}

InitLoad ==
    /\ nper = LoadNPer
    /\ pkg = FALSE /\ loaded = <<>>
    /\ store = <<>> /\ last = NoOp /\ nops = 0
    /\ WriteIdle
    /\ HandlesIdle
    /\ LakIdle
    /\ self_dtype = <<>>
    /\ file \in FileSet
    /\ pos = 0 /\ pc = "header" /\ err = "none" /\ t2a = <<>>
    /\ ipakcb = 0 /\ options = <<>> /\ aux_names = <<>>
    /\ iper = 0 /\ itmp = 0 /\ ibnd = 0 /\ current = <<>> /\ spd = <<>>

NextLoad == LoadHeader \/ LoadCount \/ LoadRecord \/ LoadFinish

SpecLoad == InitLoad /\ [][NextLoad]_vars

\* ------------------------------------------------------------- write_file
\* '%i' % n, for the numbers of the modelled packages.
ToStr(n) == CHOOSE tok \in DOMAIN Num : Num[tok] = n

\* A written line: the dataset it belongs to, the period it was written for
\* (-1 before the period loop) and its tokens.
Line(ds, k, t) == [ds |-> ds, kper |-> k, t |-> t]

\* The text of the written file as load reads it back.
Text(lines) == [i \in 1..Len(lines) |-> lines[i].t]

\* mflist.mxact: the largest number of records a period holds.
mxact(s) ==
    LET lens == {Len(s[p].recs) : p \in DOMAIN s}
    IN  CHOOSE m \in lens : \A x \in lens : x <= m

\* '  {}'.format(option) for every option, as tokens.
RECURSIVE option_tokens(_)
option_tokens(opts) ==
    IF opts = <<>> THEN <<>> ELSE Head(opts) \o option_tokens(Tail(opts))

\* The two lines ModflowGhb.write_file writes itself: heading and dataset 2a.
ghb_header(s, ipak, opts) ==
    <<Line("0", -1, <<"#", "GHB">>),
      Line("2a", -1, <<ToStr(mxact(s)), ToStr(ipak)>> \o option_tokens(opts))>>

\* The first field of a period-count line: the record-set length of an
\* Explicit period, 0 for Clear, -1 for a period carried forward.
count_field(e) ==
    IF state_kind(e) = "Explicit" THEN Len(e.recs)
    ELSE IF state_kind(e) = "Clear" THEN 0
    ELSE -1

\* encode: one token per field of the record.
encode(rec) == [j \in 1..Len(rec) |-> ToStr(rec[j])]

\* write_transient, one period: the count line, then that many record lines.
period_block(s, k) ==
    LET n == count_field(s[k])
    IN  <<Line("count", k, <<ToStr(n)>>)>> \o
        (IF n > 0
         THEN [i \in 1..n |-> Line("record", k, encode(s[k].recs[i]))]
         ELSE <<>>)

GhbWriteHeader ==
    /\ adapter = "ghb" /\ wpc = "header"
    /\ out' = ghb_header(store, self_ipakcb, self_options)
    /\ wpc' = "period"
    /\ kper' = 0
    /\ wh' = "open"
    /\ UNCHANGED <<self_dtype, rh, lakVars, nper, pkg, loaded, storeVars, loadVars, adapter, self_ipakcb,
                   self_options, steady, nlakes, lakarr, sill_data, flux_data>>

GhbWritePeriod ==
    /\ adapter = "ghb" /\ wpc = "period" /\ kper < nper
    /\ out' = out \o period_block(store, kper)
    /\ kper' = kper + 1
    /\ UNCHANGED <<extVars, nper, pkg, loaded, storeVars, loadVars, adapter, self_ipakcb,
                   self_options, wpc, steady, nlakes, lakarr, sill_data,
                   flux_data>>

\* f.close() of either write_file.
WriteClose ==
    /\ wpc = "period" /\ kper = nper
    /\ wpc' = "done"
    /\ wh' = "closed"
    /\ UNCHANGED <<self_dtype, rh, lakVars, nper, pkg, loaded, storeVars, loadVars, adapter, self_ipakcb,
                   self_options, out, kper, steady, nlakes, lakarr, sill_data,
                   flux_data>>

\* ModflowGhb.load is called on the file just written.
Reload ==
    /\ adapter = "ghb" /\ wpc = "done" /\ pc = "idle"
    /\ file' = Text(out)
    /\ pc' = "header"
    /\ UNCHANGED <<extVars, nper, pkg, loaded, storeVars, writeVars, pos, err,
                   t2a, ipakcb, options, aux_names, iper, itmp, ibnd, current,
                   spd>>

\* ModflowLak.load is called on the file just written.
LakReload ==
    /\ adapter = "lak" /\ wpc = "done" /\ pc = "idle"
    /\ file' = Text(out)
    /\ pc' = "lheader"
    /\ UNCHANGED <<extVars, nper, pkg, loaded, storeVars, writeVars, pos, err,
                   t2a, ipakcb, options, aux_names, iper, itmp, ibnd, current,
                   spd>>

\* load of either package is called on the file just written, with the
\* model's number of stress periods as the nper argument.
ReloadNper ==
    /\ wpc = "done" /\ pc = "idle"
    /\ file' = Text(out)
    /\ pc' = IF adapter = "ghb" THEN "header" ELSE "lheader"
    /\ nper_arg' = nper
    /\ UNCHANGED <<self_dtype, handleVars, theta, nssitr, sscncr, surfdep,
                   stages, stage_range, packagelist, init_err, lk,
                   nper, pkg, loaded, storeVars, writeVars, pos, err, t2a,
                   ipakcb, options, aux_names, iper, itmp, ibnd, current, spd>>

\* --------------------------------------------------- ModflowLak.write_file
\* Sill system i of period k (data sets 8a and 8b) and the flux row of lake n
\* in period k (data set 9).
SillSystem(k, i) == [d1 |-> <<2, i, i + 1>>, d2 |-> <<k>>]
FluxRow(k, n) == <<k, n, 3, 4, 7, 10>>

\* self.sill_data / self.flux_data is None.
is_None(d) == DOMAIN d = {}

NoSill == [key |-> FALSE, ds8 |-> <<>>]
NoFlux == [key |-> FALSE, ds9 |-> <<>>]

\* The lines of data sets 8a and 8b for the sill systems of ds8.
RECURSIVE sill_lines(_, _)
sill_lines(ds8, k) ==
    IF ds8 = <<>> THEN <<>>
    ELSE <<Line("8a", k, encode(Head(ds8).d1)),
           Line("8b", k, encode(Head(ds8).d2))>> \o sill_lines(Tail(ds8), k)

\* The body of the period loop of ModflowLak.write_file for period k.  The
\* faulty variant writes the arrays and sill data whenever itmp >= 0.
lak_period_block_nonnegative(k) ==
    LET n_itmp == count_field(lakarr[k])
        itmp2 == IF flux_data[k].key THEN 1 ELSE 0
        ds8 == IF sill_data[k].key THEN sill_data[k].ds8 ELSE <<>>
        ds9 == flux_data[k].ds9
    IN  <<Line("4", k, <<ToStr(n_itmp), ToStr(itmp2), "1">>)>> \o
        (IF n_itmp >= 0
         THEN <<Line("5", k, <<"lakarr", ToStr(k)>>),
                Line("6", k, <<"bdlknc", ToStr(k)>>),
                Line("7", k, <<ToStr(Len(ds8))>>)>> \o sill_lines(ds8, k)
         ELSE <<>>) \o
        (IF itmp2 > 0
         THEN [n \in 1..nlakes |->
                 Line("9a", k, encode(IF k > 0 /\ steady[k] THEN ds9[n]
                                      ELSE SubSeq(ds9[n], 1, 4)))]
         ELSE <<>>)

\* A second faulty variant writes the flux lines before the arrays.
lak_period_block_flux_first(k) ==
    LET n_itmp == count_field(lakarr[k])
        itmp2 == IF flux_data[k].key THEN 1 ELSE 0
        ds8 == IF sill_data[k].key THEN sill_data[k].ds8 ELSE <<>>
        ds9 == flux_data[k].ds9
    IN  <<Line("4", k, <<ToStr(n_itmp), ToStr(itmp2), "1">>)>> \o
        (IF itmp2 > 0
         THEN [n \in 1..nlakes |->
                 Line("9a", k, encode(IF k > 0 /\ steady[k] THEN ds9[n]
                                      ELSE SubSeq(ds9[n], 1, 4)))]
         ELSE <<>>) \o
        (IF n_itmp > 0
         THEN <<Line("5", k, <<"lakarr", ToStr(k)>>),
                Line("6", k, <<"bdlknc", ToStr(k)>>),
                Line("7", k, <<ToStr(Len(ds8))>>)>> \o sill_lines(ds8, k)
         ELSE <<>>)

lak_period_block(k) ==
    LET n_itmp == count_field(lakarr[k])
        itmp2 == IF flux_data[k].key THEN 1 ELSE 0
        ds8 == IF sill_data[k].key THEN sill_data[k].ds8 ELSE <<>>
        ds9 == flux_data[k].ds9
    IN  <<Line("4", k, <<ToStr(n_itmp), ToStr(itmp2), "1">>)>> \o
        (IF n_itmp > 0
         THEN <<Line("5", k, <<"lakarr", ToStr(k)>>),
                Line("6", k, <<"bdlknc", ToStr(k)>>),
                Line("7", k, <<ToStr(Len(ds8))>>)>> \o sill_lines(ds8, k)
         ELSE <<>>) \o
        (IF itmp2 > 0
         THEN [n \in 1..nlakes |->
                 Line("9a", k, encode(IF k > 0 /\ steady[k] THEN ds9[n]
                                      ELSE SubSeq(ds9[n], 1, 4)))]
         ELSE <<>>)

\* np.any(self.parent.dis.steady.array)
any_steady == \E k \in DOMAIN steady : steady[k]

\* Data set 2 as ModflowLak.write_file builds it.
dataset2 ==
    <<ToStr(theta)>> \o
    (IF theta < 0 \/ any_steady THEN <<ToStr(nssitr), ToStr(sscncr)>>
     ELSE <<>>) \o
    (IF theta < 0 THEN <<ToStr(surfdep)>> ELSE <<>>)

\* Data set 3 for lake n (no tab files).
dataset3(n) ==
    <<ToStr(stages.val[n])>> \o
    (IF steady[0] THEN encode(stage_range.val[n]) ELSE <<>>)

\* The lines ModflowLak.write_file writes before the period loop.
lak_header ==
    <<Line("0", -1, <<"#", "LAK">>)>> \o
    (IF Len(self_options) > 0
     THEN <<Line("1a", -1, option_tokens(self_options))>> ELSE <<>>) \o
    <<Line("1b", -1, <<ToStr(nlakes), ToStr(self_ipakcb)>>),
      Line("2", -1, dataset2)>> \o
    [n \in 1..nlakes |-> Line("3", -1, dataset3(n))]

\* open, data sets 0 to 3, then the keys of sill_data and flux_data are
\* taken: AttributeError when either is None, with the file left open.
LakWriteHeader ==
    /\ adapter = "lak" /\ wpc = "header"
    /\ wh' = "open"
    /\ out' = lak_header
    /\ kper' = 0
    /\ wpc' = IF is_None(sill_data) \/ is_None(flux_data) THEN "raised"
              ELSE "period"
    /\ UNCHANGED <<self_dtype, rh, lakVars, nper, pkg, loaded, storeVars,
                   loadVars, adapter, self_ipakcb, self_options, steady,
                   nlakes, lakarr, sill_data, flux_data>>

LakWritePeriod ==
    /\ adapter = "lak" /\ wpc = "period" /\ kper < nper
    /\ out' = out \o lak_period_block(kper)
    /\ kper' = kper + 1
    /\ UNCHANGED <<extVars, nper, pkg, loaded, storeVars, loadVars, adapter, self_ipakcb,
                   self_options, wpc, steady, nlakes, lakarr, sill_data,
                   flux_data>>

\* ------------------------------------------------------ ModflowLak.__init__
\* The shape of a one-dimensional and of a two-dimensional array.
shape1(v) == <<Len(v.val)>>
shape2(v) == IF Len(v.val) = 0 THEN <<0>> ELSE <<Len(v.val), Len(v.val[1])>>

\* stages as __init__ leaves it before its shape is read: a float becomes
\* np.array(nlakes) * stages, an array without dimensions; a list becomes an
\* array of its elements.
resolve_stages(nl, stg) ==
    IF stg.kind = "float" THEN [kind |-> "ndarray0", val |-> <<nl * stg.val[1]>>]
    ELSE IF stg.kind = "list" THEN Value("ndarray", stg.val)
    ELSE stg

\* The stage_range of np.ones((nlakes, 2)) with its columns overwritten.
default_stage_range(nl) ==
    Value("ndarray", [n \in 1..nl |-> <<-10000, 10000>>])

\* The validation of __init__ and the final add_package, for the arguments
\* nlakes, stages, stage_range, lakarr/bdlknc and the host model's steady[0].
lak_init(nl, stg, rng, steady0, arrays_given) ==
    LET s1 == resolve_stages(nl, stg)
        r1 == IF rng.kind = "None" THEN default_stage_range(nl)
              ELSE IF rng.kind = "list" THEN Value("ndarray", rng.val)
              ELSE rng
        fail(e) == [err |-> e, stages |-> stg, stage_range |-> rng,
                    added |-> FALSE]
    IN  IF s1.kind = "ndarray0" THEN fail("IndexError")
        ELSE IF s1.kind # "ndarray" THEN fail("AttributeError")
        ELSE IF shape1(s1)[1] # nl THEN fail("Exception")
        ELSE IF rng.kind = "float" THEN fail("Exception")
        ELSE IF steady0 /\ r1.kind # "ndarray" THEN fail("AttributeError")
        ELSE IF steady0 /\ shape2(r1) # <<nl, 2>> THEN fail("Exception")
        ELSE IF ~arrays_given THEN fail("Exception")
        ELSE [err |-> "none", stages |-> s1, stage_range |-> r1,
              added |-> TRUE]

\* The stages and stage_range arguments a caller can give.
StagesInputs ==
    {Value("float", <<1>>), Value("int", <<1>>)} \cup
    {Value("list", [n \in 1..m |-> 10]) : m \in 0..(MaxLakes + 1)}

StageRangeInputs ==
    {NoValue, Value("float", <<<<1>>>>)} \cup
    {Value("list", [n \in 1..m |-> [j \in 1..c |-> 1]]) :
        m \in 0..(MaxLakes + 1), c \in 2..3}

InitLakInit ==
    /\ adapter = "lak"
    /\ nper = 1
    /\ pkg = FALSE /\ loaded = <<>>
    /\ store = <<>> /\ last = NoOp /\ nops = 0
    /\ LoadIdle
    /\ HandlesIdle
    /\ self_ipakcb = 0 /\ self_options = <<>>
    /\ out = <<>> /\ wpc = "idle" /\ kper = 0
    /\ self_dtype = <<>>
    /\ theta = -1 /\ nssitr = 0 /\ sscncr = 0 /\ surfdep = 0
    /\ nper_arg = None /\ lk = NoLk
    /\ sill_data = <<>> /\ flux_data = <<>>
    /\ steady \in [0..0 -> BOOLEAN]
    /\ nlakes \in 1..MaxLakes
    /\ lakarr \in {<<>>, [k \in 0..0 |-> RecEntry(<<<<"lakarr">>>>)]}
    /\ stages \in StagesInputs
    /\ stage_range \in StageRangeInputs
    /\ packagelist = {} /\ init_err = "uncalled"

\* ModflowLak(model, nlakes, stages=..., stage_range=..., lakarr=...)
LakInit ==
    /\ init_err = "uncalled"
    /\ LET r == lak_init(nlakes, stages, stage_range, steady[0],
                         ~is_None(lakarr))
       IN  /\ init_err' = r.err
           /\ stages' = r.stages
           /\ stage_range' = r.stage_range
           /\ packagelist' = IF r.added THEN packagelist \cup {"LAK"}
                             ELSE packagelist
    /\ UNCHANGED <<self_dtype, handleVars, theta, nssitr, sscncr, surfdep,
                   nper_arg, lk, nper, pkg, loaded, storeVars, loadVars,
                   writeVars>>

NextLakInit == LakInit

SpecLakInit == InitLakInit /\ [][NextLakInit]_vars

\* --------------------------------------------------------- ModflowLak.load
\* f.readline().split() at position p: no tokens at end of file.
line_at(f, p) == IF p < Len(f) THEN f[p + 1] ELSE <<>>

\* The position after one readline at position p.
after_line(f, p) == IF p < Len(f) THEN p + 1 ELSE p

\* int(t[j - 1]) or float(t[j - 1]): the exception raised, if any.
conv(t, j) ==
    IF j > Len(t) THEN "IndexError"
    ELSE IF ~IsNum(t[j]) THEN "ValueError"
    ELSE "none"

\* The first exception of the conversions of t[0], ..., t[n - 1] in order.
convs(t, n) ==
    IF \A j \in 1..n : conv(t, j) = "none" THEN "none"
    ELSE conv(t, CHOOSE j \in 1..n :
                    /\ conv(t, j) # "none"
                    /\ \A i \in 1..(j - 1) : conv(t, i) = "none")

\* Data set 3: one line per lake; t[0] is kept as read, and the stage range
\* is converted when the first period is steady state.
RECURSIVE read_stages(_, _, _, _)
read_stages(f, p, n, steady0) ==
    IF n <= 0 THEN [err |-> "none", pos |-> p, stages |-> <<>>,
                    stage_range |-> <<>>]
    ELSE LET r == read_stages(f, p, n - 1, steady0)
             t == line_at(f, r.pos)
             e == IF Len(t) = 0 THEN "IndexError"
                  ELSE IF steady0
                  THEN (IF conv(t, 2) # "none" THEN conv(t, 2) ELSE conv(t, 3))
                  ELSE "none"
         IN  IF r.err # "none" THEN r
             ELSE IF e # "none" THEN [r EXCEPT !.err = e,
                                               !.pos = after_line(f, r.pos)]
             ELSE [err |-> "none", pos |-> after_line(f, r.pos),
                   stages |-> Append(r.stages, t[1]),
                   stage_range |->
                       IF steady0
                       THEN Append(r.stage_range, <<Num[t[2]], Num[t[3]]>>)
                       ELSE r.stage_range]

\* ModflowLak.load up to the period loop: data sets 0, 1b, 2 and 3 (no
\* TABLEINPUT line).
lak_load_header(f, steady0) ==
    LET n0 == skip_comments(f, 0)
        t1 == line_at(f, n0)
        p1 == after_line(f, n0)
        t2 == line_at(f, p1)
        p2 == after_line(f, p1)
        th == IF conv(t2, 1) = "none" THEN Num[t2[1]] ELSE 0
        ds3 == read_stages(f, p2, IF conv(t1, 1) = "none" THEN Num[t1[1]]
                                  ELSE 0, steady0)
        fail(e, n) == [NoLk EXCEPT !.nlakes = 0] @@ [err |-> e, pos |-> n]
    IN  IF n0 = Len(f) THEN fail("IndexError", n0)
        ELSE IF conv(t1, 1) # "none" THEN fail(conv(t1, 1), p1)
        ELSE IF conv(t2, 1) # "none" THEN fail(conv(t2, 1), p2)
        ELSE IF th < 0 /\ conv(t2, 4) # "none" THEN fail(conv(t2, 4), p2)
        ELSE IF ds3.err # "none" THEN fail(ds3.err, ds3.pos)
        ELSE [NoLk EXCEPT
                !.nlakes = Num[t1[1]],
                !.ipakcb = IF conv(t1, 2) = "none" THEN Num[t1[2]] ELSE 0,
                !.theta = th,
                !.nssitr = IF th < 0 /\ conv(t2, 2) = "none" THEN Num[t2[2]]
                           ELSE 0,
                !.sscncr = IF th < 0 /\ conv(t2, 3) = "none" THEN Num[t2[3]]
                           ELSE 0,
                !.surfdep = IF th < 0 THEN Num[t2[4]] ELSE 0,
                !.stages = ds3.stages,
                !.stage_range = ds3.stage_range,
                !.sill_data = [k \in 0..(nper - 1) |-> NoSill],
                !.flux_data = [k \in 0..(nper - 1) |-> NoFlux]]
             @@ [err |-> "none", pos |-> ds3.pos]

\* Data sets 8a and 8b for n sill systems, from position p.
RECURSIVE read_sills(_, _, _)
read_sills(f, p, n) ==
    IF n <= 0 THEN [err |-> "none", pos |-> p, ds8 |-> <<>>]
    ELSE LET r == read_sills(f, p, n - 1)
             ta == line_at(f, r.pos)
             pa == after_line(f, r.pos)
             ic == IF conv(ta, 1) = "none" THEN Num[ta[1]] ELSE 0
             tb == line_at(f, pa)
             pb == after_line(f, pa)
         IN  IF r.err # "none" THEN r
             ELSE IF conv(ta, 1) # "none"
             THEN [r EXCEPT !.err = conv(ta, 1), !.pos = pa]
             ELSE IF convs(ta, ic + 1) # "none"
             THEN [r EXCEPT !.err = convs(ta, ic + 1), !.pos = pa]
             ELSE IF convs(tb, ic - 1) # "none"
             THEN [r EXCEPT !.err = convs(tb, ic - 1), !.pos = pb]
             ELSE [err |-> "none", pos |-> pb,
                   ds8 |-> Append(r.ds8,
                              [d1 |-> [j \in 1..(ic + 1) |-> Num[ta[j]]],
                               d2 |-> [j \in 1..(ic - 1) |-> Num[tb[j]]]])]

\* Data set 9 for n lakes, from position p, in period per.  calls counts the
\* readline calls made for the data set.
RECURSIVE read_fluxes(_, _, _, _, _)
read_fluxes(f, p, n, per, rng) ==
    IF n <= 0 THEN [err |-> "none", pos |-> p, ds9 |-> <<>>, calls |-> 0]
    ELSE LET r == read_fluxes(f, p, n - 1, per, rng)
             t == line_at(f, r.pos)
             q == after_line(f, r.pos)
             need == IF steady[per] /\ per # 0 THEN 6 ELSE 4
             tail == IF steady[per]
                     THEN (IF per = 0 THEN rng[n]
                           ELSE <<Num[t[5]], Num[t[6]]>>)
                     ELSE <<0, 0>>
         IN  IF r.err # "none" THEN r
             ELSE IF convs(t, need) # "none"
             THEN [r EXCEPT !.err = convs(t, need), !.pos = q,
                            !.calls = r.calls + 1]
             ELSE [err |-> "none", pos |-> q,
                   ds9 |-> Append(r.ds9, [j \in 1..4 |-> Num[t[j]]] \o tail),
                   calls |-> r.calls + 1]

\* The body of the period loop of ModflowLak.load for period per, from
\* position p.  bound tells whether nlay, nrow and ncol were assigned, which
\* happens only when load itself asks the model for nper.
lak_load_period(f, p, per, l, bound) ==
    LET t4 == line_at(f, p)
        p4 == after_line(f, p)
        n_itmp == IF conv(t4, 1) = "none" THEN Num[t4[1]] ELSE 0
        n_itmp1 == IF conv(t4, 2) = "none" THEN Num[t4[2]] ELSE 0
        t7 == line_at(f, p4 + 2)
        p7 == after_line(f, p4 + 2)
        nslms == IF conv(t7, 1) = "none" THEN Num[t7[1]] ELSE 0
        s8 == read_sills(f, p7, nslms)
        arr_err == IF n_itmp <= 0 THEN "none"
                   ELSE IF ~bound THEN "UnboundLocalError"
                   ELSE IF p4 + 2 > Len(f) THEN "ValueError"
                   ELSE IF conv(t7, 1) # "none" THEN conv(t7, 1)
                   ELSE s8.err
        p8 == IF n_itmp <= 0 \/ ~bound THEN p4
              ELSE IF p4 + 2 > Len(f) THEN Len(f)
              ELSE IF conv(t7, 1) # "none" THEN p7
              ELSE s8.pos
        f9 == read_fluxes(f, p8, l.nlakes, per, l.stage_range)
        out4 == [err |-> "none", pos |-> p4, itmp |-> n_itmp,
                 itmp1 |-> n_itmp1, arr |-> FALSE, sill |-> NoSill,
                 flux |-> NoFlux, nds9 |-> 0]
    IN  IF convs(t4, 3) # "none"
        THEN [out4 EXCEPT !.err = convs(t4, 3), !.itmp = 0, !.itmp1 = 0]
        ELSE IF arr_err # "none"
        THEN [out4 EXCEPT !.err = arr_err, !.pos = p8]
        ELSE LET out8 == [out4 EXCEPT
                            !.pos = p8,
                            !.arr = n_itmp > 0,
                            !.sill = IF n_itmp > 0 /\ nslms > 0
                                     THEN [key |-> TRUE, ds8 |-> s8.ds8]
                                     ELSE NoSill]
             IN  IF n_itmp1 >= 0
                 THEN [out8 EXCEPT
                         !.err = f9.err, !.pos = f9.pos, !.nds9 = f9.calls,
                         !.flux = IF f9.err = "none"
                                  THEN [key |-> TRUE, ds9 |-> f9.ds9]
                                  ELSE NoFlux]
                 ELSE out8

\* The position of ModflowLak.load after the period loop's iteration per.
lak_next_pc(per) == IF per >= load_nper THEN "lfinish" ELSE "lperiod"

LakLoadHeader ==
    /\ pc = "lheader"
    /\ rh' = "open"
    /\ LET h == lak_load_header(file, steady[0])
       IN  /\ lk' = [x \in DOMAIN NoLk |-> h[x]]
           /\ pos' = h.pos
           /\ err' = h.err
           /\ pc' = IF h.err # "none" THEN "raised" ELSE lak_next_pc(0)
    /\ iper' = 0
    /\ UNCHANGED <<self_dtype, wh, theta, nssitr, sscncr, surfdep, stages,
                   stage_range, packagelist, init_err, nper_arg, nper, pkg,
                   loaded, storeVars, writeVars, file, t2a, ipakcb, options,
                   aux_names, itmp, ibnd, current, spd>>

LakLoadPeriod ==
    /\ pc = "lperiod"
    /\ LET r == lak_load_period(file, pos, iper, lk, nper_arg = None)
       IN  /\ pos' = r.pos
           /\ err' = r.err
           /\ itmp' = r.itmp
           /\ IF r.err # "none"
              THEN /\ pc' = "raised"
                   /\ iper' = iper
                   /\ lk' = [lk EXCEPT !.itmp1 = r.itmp1, !.nds9 = r.nds9]
              ELSE /\ pc' = lak_next_pc(iper + 1)
                   /\ iper' = iper + 1
                   /\ lk' = [lk EXCEPT
                               !.itmp1 = r.itmp1, !.nds9 = r.nds9,
                               !.lake_loc = IF r.arr THEN @ \cup {iper} ELSE @,
                               !.sill_keys = IF r.sill.key THEN @ \cup {iper}
                                             ELSE @,
                               !.flux_keys = IF r.flux.key THEN @ \cup {iper}
                                             ELSE @,
                               !.sill_data[iper] = r.sill,
                               !.flux_data[iper] = r.flux]
    /\ UNCHANGED <<self_dtype, handleVars, theta, nssitr, sscncr, surfdep,
                   stages, stage_range, packagelist, init_err, nper_arg, nper,
                   pkg, loaded, storeVars, writeVars, file, t2a, ipakcb,
                   options, aux_names, ibnd, current, spd>>

\* The arrays become Transient3d objects of shape (nlay, nrow, ncol), then
\* ModflowLak(model, ...) is constructed from the locals and returned.
lak_load_finish(l, bound) ==
    IF ~bound THEN [err |-> "UnboundLocalError", added |-> FALSE]
    ELSE LET r == lak_init(l.nlakes, Value("list", l.stages),
                           Value("list", l.stage_range), steady[0], TRUE)
         IN  [err |-> r.err, added |-> r.added]

LakLoadFinish ==
    /\ pc = "lfinish"
    /\ LET r == lak_load_finish(lk, nper_arg = None)
       IN  /\ err' = r.err
           /\ pc' = IF r.err # "none" THEN "raised" ELSE "done"
           /\ pkg' = r.added
    /\ UNCHANGED <<self_dtype, handleVars, lakVars, nper, loaded, storeVars,
                   writeVars, file, pos, t2a, ipakcb, options, aux_names,
                   iper, itmp, ibnd, current, spd>>

\* ------------------------------------------- packages that are written out
\* The entries a caller can give a period: none, Clear, or a record set.
StoreEntries == {NoKey, IntEntry(0)} \cup {RecEntry(rs) : rs \in SetInputs}

\* The entries of lakarr: none, Clear, or the period's array.
ArrayEntries == {NoKey, IntEntry(0), RecEntry(<<<<"lakarr">>>>)}

\* A ModflowGhb whose ipakcb is one of Flags.
GhbPackage(Flags) ==
    /\ adapter = "ghb"
    /\ nper = WriteNPer
    /\ store \in [0..(WriteNPer - 1) -> StoreEntries]
    /\ self_ipakcb \in Flags
    /\ self_options \in {<<>>, <<<<"NOPRINT">>>>}
    /\ steady = <<>> /\ nlakes = 0
    /\ lakarr = <<>> /\ sill_data = <<>> /\ flux_data = <<>>
    /\ self_dtype = get_default_dtype
    /\ LakIdle

\* parent.dis.steady: a first period that is steady state or transient,
\* followed by periods that are all steady state or all transient.
SteadyFlags ==
    {[k \in 0..(LakNPer - 1) |-> IF k = 0 THEN a ELSE b] : a, b \in BOOLEAN}

\* The sill_data and flux_data dictionaries a caller can give, with an entry
\* for some of the periods.
SillDicts ==
    {[k \in 0..(LakNPer - 1) |->
        IF k \in K
        THEN [key |-> TRUE, ds8 |-> <<SillSystem(k, 1), SillSystem(k, 2)>>]
        ELSE NoSill] : K \in SUBSET (0..(LakNPer - 1))}

FluxDicts(nl) ==
    {[k \in 0..(LakNPer - 1) |->
        IF k \in K
        THEN [key |-> TRUE, ds9 |-> [n \in 1..nl |-> FluxRow(k, n)]]
        ELSE NoFlux] : K \in SUBSET (0..(LakNPer - 1))}

\* A ModflowLak with dictionaries for sill_data and flux_data when
\* with_default is FALSE, and with None (the default) for them as well when
\* it is TRUE; theta is one of Thetas.
LakPackage(Thetas, with_default) ==
    /\ adapter = "lak"
    /\ nper = LakNPer
    /\ store = <<>>
    /\ self_ipakcb = 53 /\ self_options = <<>>
    /\ steady \in SteadyFlags
    /\ nlakes \in 1..MaxLakes
    /\ lakarr \in [0..(LakNPer - 1) -> ArrayEntries]
    /\ sill_data \in SillDicts \cup (IF with_default THEN {<<>>} ELSE {})
    /\ flux_data \in FluxDicts(nlakes) \cup
                        (IF with_default THEN {<<>>} ELSE {})
    /\ self_dtype = <<>>
    /\ theta \in Thetas
    /\ nssitr = 2 /\ sscncr = 3 /\ surfdep = 4
    /\ stages = Value("ndarray", [n \in 1..nlakes |-> 10])
    /\ stage_range = Value("ndarray", [n \in 1..nlakes |-> <<1, 100>>])
    /\ packagelist = {"LAK"} /\ init_err = "none"
    /\ nper_arg = None /\ lk = NoLk

InitGhbWrite == GhbPackage({0, 53})

InitGhbRoundTrip == GhbPackage({0, 7, 53})

InitLakWrite == LakPackage({-1}, FALSE)

InitLakRoundTrip == LakPackage({-1, 1}, TRUE)

\* write_file has not been called yet.
BeforeWrite ==
    /\ pkg = FALSE /\ loaded = <<>>
    /\ last = NoOp /\ nops = 0
    /\ LoadIdle
    /\ HandlesIdle
    /\ out = <<>> /\ kper = 0 /\ wpc = "header"

InitWrite ==
    /\ BeforeWrite
    /\ \/ InitGhbWrite
       \/ InitLakWrite

InitRoundTrip ==
    /\ BeforeWrite
    /\ \/ InitGhbRoundTrip
       \/ InitLakRoundTrip

\* write_file of either package, and load of the GHB file written.
NextWrite ==
    \/ GhbWriteHeader \/ GhbWritePeriod \/ LakWriteHeader \/ LakWritePeriod
    \/ WriteClose \/ Reload \/ LoadHeader \/ LoadCount \/ LoadRecord
    \/ LoadFinish

SpecWrite == InitWrite /\ [][NextWrite]_vars

\* write_file, then load of the file written, for either package.
NextRoundTrip ==
    \/ GhbWriteHeader \/ GhbWritePeriod \/ LakWriteHeader \/ LakWritePeriod
    \/ WriteClose \/ Reload \/ LakReload \/ ReloadNper
    \/ LoadHeader \/ LoadCount \/ LoadRecord \/ LoadFinish
    \/ LakLoadHeader \/ LakLoadPeriod \/ LakLoadFinish

SpecRoundTrip == InitRoundTrip /\ [][NextRoundTrip]_vars

\* ------------------------------------------------- claims about the store
Periods == 0..(nper - 1)

\* C1: for every period p, effective(p) is the state of the greatest key
\* q <= p holding an Explicit or Clear entry, and (EMPTY, []) when there is
\* none; after set(0, R) and set(2, CLEAR), effective(1) is Explicit(R) and
\* effective(2) and effective(3) are Clear.
C1_EffectiveIsNearestEntry ==
    /\ \A p \in Periods :
        LET K == {q \in 0..p : state_kind(store[q]) \in {"Explicit", "Clear"}}
        IN  IF K = {}
            THEN effective(store, p) = [kind |-> "EMPTY", recs |-> <<>>]
            ELSE LET q == CHOOSE x \in K : \A r \in K : r <= x
                 IN  /\ effective(store, p).kind = state_kind(store[q])
                     /\ effective(store, p).recs = store[q].recs
    /\ (/\ store[0] = RecEntry(<<R1>>) /\ store[1] = NoKey
        /\ store[2] = IntEntry(0) /\ store[3] = NoKey)
       => /\ effective(store, 1) = [kind |-> "Explicit", recs |-> <<R1>>]
          /\ effective(store, 2) = [kind |-> "Clear", recs |-> <<>>]
          /\ effective(store, 3) = [kind |-> "Clear", recs |-> <<>>]

\* The scenario of C1 has just been built: set(0, R) then set(2, CLEAR).
C1_Witness ==
    /\ last.op = "clear" /\ last.kper = 2 /\ nops = 2
    /\ store[0] = RecEntry(<<R1>>) /\ store[1] = NoKey
    /\ store[2] = IntEntry(0) /\ store[3] = NoKey

\* C5: a successful add_record on a period without an Explicit entry makes
\* the period Explicit with a copy of its effective record set in which only
\* slot index is set; no other period's entry changes, and every later period
\* that was carried forward through p now resolves to the entry at p.
C5_AddRecordCopiesThenMutates ==
    [][(/\ nops' = nops + 1 /\ last'.op = "add_record" /\ last'.err = "none"
        /\ store[last'.kper].tag # "rec")
       => LET p == last'.kper
              i == last'.index
              src == effective(store, p).recs
          IN  /\ store'[p].tag = "rec"
              /\ Len(store'[p].recs) =
                    IF i = Len(src) THEN Len(src) + 1 ELSE Len(src)
              /\ store'[p].recs[i + 1] = last'.values
              /\ \A j \in 1..Len(src) : j # i + 1 => store'[p].recs[j] = src[j]
              /\ \A q \in Periods : q # p => store'[q] = store[q]
              /\ \A q \in (p + 1)..(nper - 1) :
                    (\A r \in (p + 1)..q : state_kind(store[r]) = "CarryForward")
                    => effective(store', q) =
                          [kind |-> "Explicit", recs |-> store'[p].recs]
      ]_vars

\* add_record has just made a carried-forward period Explicit from a
\* non-empty source set, changed it, and a later period has no entry.
C5_Witness ==
    /\ last.op = "add_record" /\ last.err = "none"
    /\ last.was = "CarryForward" /\ last.len > 0
    /\ last.kper > 0 /\ last.kper < nper - 1
    /\ store[last.kper + 1] = NoKey
    /\ \E q \in 0..(last.kper - 1) :
          /\ store[q].tag = "rec"
          /\ store[q].recs # store[last.kper].recs
          /\ \A r \in (q + 1)..(last.kper - 1) : store[r] = NoKey

\* C6: add_record replaces slot index when index < length, grows the set by
\* one when index = length, and fails with an IndexError reaching the caller
\* when index > length.
C6_IndexErrorReachesCaller ==
    [][(nops' = nops + 1 /\ last'.op = "add_record")
       => LET p == last'.kper
              i == last'.index
              base == IF store[p].tag = "rec" THEN store[p].recs
                      ELSE effective(store, p).recs
          IN  /\ i < Len(base) =>
                    /\ last'.err = "none"
                    /\ store'[p].recs = [base EXCEPT ![i + 1] = last'.values]
              /\ i = Len(base) =>
                    /\ last'.err = "none"
                    /\ store'[p].recs = Append(base, last'.values)
              /\ i > Len(base) => last'.err = "IndexError"
      ]_vars

\* -------------------------------------------------- claims about GHB load
\* The line the next readline of load returns ('' at end of file).
NextLine == IF pos < Len(file) THEN file[pos + 1] ELSE <<>>

\* 5 + the number of AUX names declared on the dataset 2a line.
DeclaredFields ==
    5 + Cardinality({j \in 3..Len(t2a) : lower(t2a[j]) = "aux"})

\* The records of the itmp lines that end at line n of the file.
DecodedBlock(n, cnt, k) ==
    [i \in 1..cnt |-> [j \in 1..k |-> Num[file[n - cnt + i][j]]]]

\* A period-count line is read and accepted in this step.
CountLineRead == pc = "count" /\ pos' = pos + 1 /\ pc' # "raised"

\* The last record line of a period block is read and accepted in this step.
BlockRead == pc = "record" /\ iper' = iper + 1

\* C3 (as stated): a count > 0 gives period iper an Explicit entry of exactly
\* that many decoded records in file order, a count of 0 gives it a Clear
\* marker, and the negative sentinel gives it no key at all.
C3_SentinelLeavesNoKey ==
    [][/\ CountLineRead =>
            /\ Num[NextLine[1]] = 0 => spd'[iper] = IntEntry(0)
            /\ Num[NextLine[1]] = -1 => spd'[iper] = NoKey
       /\ BlockRead =>
            /\ spd'[iper].tag = "rec"
            /\ Len(spd'[iper].recs) = itmp
            /\ spd'[iper].recs = DecodedBlock(pos', itmp, DeclaredFields)
      ]_vars

\* C3 (amended): as above, except that the sentinel -1 is stored under the key
\* iper as the integer -1, an entry that is neither Explicit nor Clear, so the
\* period is carried forward; any other negative count leaves no key.
C3_SentinelStoredAsMinusOne ==
    [][/\ CountLineRead =>
            /\ Num[NextLine[1]] = 0 => spd'[iper] = IntEntry(0)
            /\ Num[NextLine[1]] = -1 =>
                    /\ spd'[iper] = IntEntry(-1)
                    /\ state_kind(spd'[iper]) = "CarryForward"
            /\ Num[NextLine[1]] < -1 => spd'[iper] = NoKey
            /\ \A q \in 0..(nper - 1) : q # iper => spd'[q] = spd[q]
       /\ BlockRead =>
            /\ spd'[iper].tag = "rec"
            /\ Len(spd'[iper].recs) = itmp
            /\ spd'[iper].recs = DecodedBlock(pos', itmp, DeclaredFields)
            /\ \A q \in 0..(nper - 1) : q # iper => spd'[q] = spd[q]
      ]_vars

\* The count line of the second period was the sentinel -1, after a first
\* period that holds records.
C3_Witness ==
    /\ pc \in {"count", "finish"} /\ iper = 2 /\ itmp = -1
    /\ file[pos] = <<"-1">>
    /\ spd[1] = IntEntry(-1)
    /\ spd[0].tag = "rec"

\* C7: load returns a package only after all nper period blocks were read; a
\* file that ends early never yields a package.
C7_LoadAllOrNothing == pkg => iper = nper

\* C8: load gets past the dataset 2a line only when its record-count field
\* and its output-unit flag are both present and numeric.
C8_HeaderFieldsNumeric ==
    pc \in {"count", "record", "finish", "done"}
    => Len(t2a) >= 2 /\ IsNum(t2a[1]) /\ IsNum(t2a[2])

\* C9: with k = 5 + the number of declared AUX names, a record line of at
\* least k numeric tokens is stored as the record of its first k tokens, and
\* a record line of fewer than k tokens makes load raise, leaving the slot
\* and stress_period_data as they were and returning no package.
C9_RecordTokenCount ==
    [][pc = "record" =>
        LET k == DeclaredFields
            line == NextLine
        IN  /\ (/\ Len(line) >= k
                /\ \A j \in 1..k : IsNum(line[j])
                /\ ~has_word(line, "open/close"))
               => /\ pc' # "raised"
                  /\ current'[ibnd + 1] = [j \in 1..k |-> Num[line[j]]]
                  /\ \A i \in 1..Len(current) :
                        i # ibnd + 1 => current'[i] = current[i]
            /\ Len(line) < k
               => /\ pc' = "raised"
                  /\ err' = IF has_word(line, "open/close")
                            THEN "NotImplementedError" ELSE "ValueError"
                  /\ current' = current /\ spd' = spd /\ pkg' = FALSE
      ]_vars

\* The header declared two AUX names and a record line with one extra column
\* made load raise.
C9_Witness ==
    /\ pc = "raised" /\ err = "ValueError"
    /\ Len(aux_names) = 2
    /\ current # <<>> /\ ibnd < itmp
    /\ file[pos] = Rec6

\* C10: a record line holding an open/close token makes load raise
\* NotImplementedError; the line is not stored, not skipped, and no package
\* is returned.
C10_OpenCloseUnsupported ==
    [][/\ (pc = "record" /\ has_word(NextLine, "open/close"))
          => /\ pc' = "raised" /\ err' = "NotImplementedError"
             /\ current' = current /\ spd' = spd /\ ibnd' = ibnd
       /\ err' = "NotImplementedError" => pc' = "raised" /\ pkg' = FALSE
       /\ pc = "raised" => pc' = "raised"
      ]_vars

\* load raised on an open/close line found where the second record of a
\* period was expected.
C10_Witness ==
    /\ pc = "raised" /\ err = "NotImplementedError"
    /\ has_word(file[pos], "open/close")
    /\ ibnd = 1 /\ itmp = 2 /\ pkg = FALSE

\* ------------------------------------------------ claims about write_file
\* The indices of the lines of out written for period k as data of the
\* period's count line: record lines, or lakarr, bdlknc and sill data.
DataLines(k) ==
    {j \in 1..Len(out) :
        out[j].kper = k /\ out[j].ds \in {"record", "5", "6", "7", "8a", "8b"}}

\* The entry a period-count line is written from.
CountedEntry(k) == IF adapter = "ghb" THEN store[k] ELSE lakarr[k]

C4_CountLineAndData ==
    \A i \in 1..Len(out) :
        out[i].ds \in {"count", "4"}
        => LET k == out[i].kper
               n == Num[out[i].t[1]]
               e == CountedEntry(k)
           IN  /\ state_kind(e) = "Explicit" => n = Len(e.recs)
               /\ state_kind(e) = "Clear" => n = 0
               /\ state_kind(e) = "CarryForward" => n = -1
               /\ (DataLines(k) # {}) <=> (n > 0)
               /\ n > 0 => /\ i + 1 \in DataLines(k)
                           /\ \A j \in DataLines(k) : j > i
               /\ (n > 0 /\ adapter = "ghb") => DataLines(k) = (i + 1)..(i + n)
               /\ (n > 0 /\ adapter = "lak")
                  => /\ out[i + 1].ds = "5" /\ out[i + 2].ds = "6"
                     /\ out[i + 3].ds = "7"
                     /\ DataLines(k) =
                          (i + 1)..(i + 3 + 2 * Num[out[i + 3].t[1]])

\* A Lake file is complete in which a period with arrays is followed by a
\* period without, whose flux lines are written all the same.
C4_Witness ==
    /\ adapter = "lak" /\ wpc = "done"
    /\ state_kind(lakarr[0]) = "Explicit" /\ sill_data[0].key
    /\ state_kind(lakarr[1]) # "Explicit" /\ sill_data[1].key
    /\ flux_data[1].key
    /\ DataLines(0) # {} /\ DataLines(1) = {}

\* ------------------------------------------------ claims about file handles
\* C11: every file handle load or write_file opened is closed once the
\* operation has returned or raised.
C11_HandlesClosed ==
    /\ pc \in {"done", "raised"} => rh # "open"
    /\ wpc \in {"done", "raised"} => wh # "open"

\* ------------------------------------------- claims about the Lake writer
\* The lines written for period k, in file order.
BlockOf(k) == SelectSeq(out, LAMBDA l : l.kper = k)

\* The number of lines of data set ds written for period k.
CountOf(k, ds) ==
    Cardinality({j \in 1..Len(out) : out[j].kper = k /\ out[j].ds = ds})

\* t is the line written for a flux row: its first four values outside a
\* steady period after the first, all six otherwise.
IsFluxLine(t, row) ==
    \/ t = [j \in 1..4 |-> ToStr(row[j])]
    \/ t = [j \in 1..6 |-> ToStr(row[j])]

\* C12: the Lake writer writes one block per period in ascending order of
\* kper; a block is its count line, then lakarr, bdlknc, the sill count line
\* and an 8a line followed by an 8b line per sill system, then one flux line
\* per lake in lake order; the sill and flux items of block kper are those
\* sill_data and flux_data hold for kper.
C12_LakBlockOrder ==
    (adapter = "lak" /\ wpc \in {"period", "done"})
    => /\ \A i, j \in 1..Len(out) : i < j => out[i].kper <= out[j].kper
       /\ {out[j].kper : j \in 1..Len(out)} \ {-1} = 0..(kper - 1)
       /\ wpc = "done" => kper = nper
       /\ \A k \in 0..(kper - 1) :
            LET b == BlockOf(k)
                m == CountOf(k, "8a")
                n9 == CountOf(k, "9a")
                arrays == IF CountOf(k, "5") > 0
                          THEN <<"5", "6", "7">> \o
                               [i \in 1..(2 * m) |->
                                   IF i % 2 = 1 THEN "8a" ELSE "8b"]
                          ELSE <<>>
            IN  /\ [i \in 1..Len(b) |-> b[i].ds] =
                      <<"4">> \o arrays \o [i \in 1..n9 |-> "9a"]
                /\ n9 \in {0, nlakes}
                /\ n9 > 0 <=> flux_data[k].key
                /\ m > 0 => sill_data[k].key /\ m = Len(sill_data[k].ds8)
                /\ \A i \in 1..m :
                      /\ b[3 + 2 * i].t = encode(sill_data[k].ds8[i].d1)
                      /\ b[4 + 2 * i].t = encode(sill_data[k].ds8[i].d2)
                /\ \A n \in 1..n9 :
                      IsFluxLine(b[Len(b) - n9 + n].t, flux_data[k].ds9[n])

\* A Lake file of two lakes is complete whose first period has arrays, two
\* sill systems and flux rows, and whose last period has flux rows too.
C12_Witness ==
    /\ adapter = "lak" /\ wpc = "done" /\ nlakes = 2
    /\ state_kind(lakarr[0]) = "Explicit"
    /\ sill_data[0].key /\ flux_data[0].key
    /\ flux_data[nper - 1].key /\ sill_data[nper - 1].key
    /\ CountOf(0, "8a") = 2 /\ CountOf(0, "9a") = 2
    /\ CountOf(nper - 1, "9a") = 2

\* ------------------------------------------- claims about the Lake loader
\* C13: the Lake loader starts every period block at that period's count
\* line, reads nlakes flux lines when the writer wrote 1 in the second field
\* and none when it wrote 0, and ends with flux_data holding the periods the
\* written flux_data held.
C13_LoaderFollowsWriter ==
    [][(adapter = "lak" /\ nper_arg = None /\ pc = "lperiod")
       => /\ out[pos + 1].ds = "4" /\ out[pos + 1].kper = iper
          /\ lk'.nds9 = IF out[pos + 1].t[2] = "1" THEN nlakes ELSE 0
          /\ pc' = "lfinish"
             => lk'.flux_keys = {k \in 0..(nper - 1) : flux_data[k].key}
      ]_vars

\* --------------------------------------- claims about ModflowLak.__init__
\* C14: construction succeeds only when stages gives exactly nlakes values (a
\* float standing for nlakes equal values) and stage_range has shape
\* (nlakes, 2) or is left to its default; a float stages with a good
\* stage_range is accepted; whenever construction raises, the package is not
\* added to the host model.
C14_InitValidatesShapes ==
    [][init_err = "uncalled"
       => LET stages_ok ==
                \/ stages.kind = "float"
                \/ stages.kind \in {"list", "ndarray"}
                   /\ Len(stages.val) = nlakes
              range_ok ==
                \/ stage_range.kind = "None"
                \/ stage_range.kind \in {"list", "ndarray"}
                   /\ shape2(stage_range) = <<nlakes, 2>>
          IN  /\ init_err' = "none" => stages_ok /\ range_ok
              /\ (stages.kind = "float" /\ range_ok /\ ~is_None(lakarr))
                 => /\ init_err' = "none"
                    /\ stages'.val = [n \in 1..nlakes |-> stages.val[1]]
              /\ init_err' # "none" => packagelist' = packagelist
      ]_vars

\* ------------------------------------------- claims about the GHB header
\* The auxiliary names the dataset 2a line declares, in header order.
RECURSIVE DeclaredAux(_, _)
DeclaredAux(t, j) ==
    IF j > Len(t) THEN <<>>
    ELSE IF lower(t[j]) = "aux" /\ j < Len(t)
    THEN <<lower(t[j + 1])>> \o DeclaredAux(t, j + 2)
    ELSE DeclaredAux(t, j + 1)

\* The options the dataset 2a line declares, in header order.
RECURSIVE DeclaredOptions(_, _)
DeclaredOptions(t, j) ==
    IF j > Len(t) THEN <<>>
    ELSE IF lower(t[j]) = "noprint"
    THEN <<<<t[j]>>>> \o DeclaredOptions(t, j + 1)
    ELSE IF lower(t[j]) = "aux" /\ j < Len(t)
    THEN <<<<t[j], t[j + 1]>>>> \o DeclaredOptions(t, j + 2)
    ELSE DeclaredOptions(t, j + 1)

\* C15: the package load returns has the schema k, i, j, bhead, cond followed
\* by the AUX names of the header in header order; every record of every
\* Explicit period has one value per field of that schema; and a record line
\* of 5 base values and one auxiliary value, read under a schema of six
\* fields, keeps the auxiliary value in the sixth field.
C15_SchemaAfterLoad ==
    [][/\ pkg' =>
            /\ self_dtype' = <<"k", "i", "j", "bhead", "cond">> \o
                                 DeclaredAux(t2a', 3)
            /\ \A p \in DOMAIN loaded' :
                  loaded'[p].tag = "rec"
                  => \A i \in 1..Len(loaded'[p].recs) :
                        Len(loaded'[p].recs[i]) = Len(self_dtype')
       /\ (/\ pc = "record" /\ pc' # "raised"
           /\ Len(DeclaredAux(t2a, 3)) = 1 /\ Len(NextLine) = 6)
          => /\ Len(current'[ibnd + 1]) = 6
             /\ current'[ibnd + 1][6] = Num[NextLine[6]]
       /\ BlockRead => spd'[iper].recs = current'
      ]_vars

\* load has returned a package whose header declared AUX temp and whose
\* first period holds a record with the auxiliary value 7.
C15_Witness ==
    /\ pkg /\ pc = "done"
    /\ self_dtype = <<"k", "i", "j", "bhead", "cond", "temp">>
    /\ loaded[0].tag = "rec"
    /\ loaded[0].recs[1] = <<1, 1, 1, 10, 100, 7>>

\* C16: once load is past the header, options holds one entry per NOPRINT
\* token and one per AUX token with its name, aux_names holds the names, all
\* in header order, and writing the options gives back the option tokens of
\* the header.
C16_OptionsRecorded ==
    pc \in {"count", "record", "finish", "done"}
    => /\ options = DeclaredOptions(t2a, 3)
       /\ aux_names = DeclaredAux(t2a, 3)
       /\ option_tokens(options) = SubSeq(t2a, 3, Len(t2a))

\* ------------------------------------------------ claims about round trips
\* C17: after write_file and load, the loaded ipakcb of the GHB package, and
\* the loaded ipakcb, theta, nssitr, sscncr and surfdep of the Lake package,
\* are the values of the package written.
C17_ScalarsRoundTrip ==
    /\ (adapter = "ghb" /\ pc = "done") => ipakcb = self_ipakcb
    /\ (adapter = "lak" /\ pc \in {"lperiod", "lfinish", "done"})
       => /\ lk.ipakcb = self_ipakcb
          /\ lk.theta = theta
          /\ lk.nssitr = nssitr
          /\ lk.sscncr = sscncr
          /\ lk.surfdep = surfdep

\* C18: load returns after exactly nper period blocks, nper being the
\* argument when it is given and the host model's otherwise, and finds the
\* grid shape it needs however nper was obtained.
C18_NperSourceIrrelevant ==
    /\ pc = "done" => iper = load_nper
    /\ iper <= load_nper
    /\ err # "UnboundLocalError"

====
